---- MODULE Spec2Model ----
(***************************************************************************)
(* Pest detection and pesticide recommendation system.                     *)
(*                                                                         *)
(* Strings whose contents matter (pest names, queries) are sequences of    *)
(* one-character strings, so that lower-casing, stripping, substring and   *)
(* regular-expression search are computed character by character.          *)
(***************************************************************************)
EXTENDS Integers, Sequences, FiniteSets, TLC

VARIABLES
    pesticide_db,      \* PesticideRecommender.pesticide_db: [columns, names]
    rec_pc,            \* "idle" | "returned" | "displayed"
    rec_query,         \* argument of the last get_recommendations / display call
    rec_result,        \* outcome of the last get_recommendations call
    ui,                \* what display_pesticide_recommendations put on the page
    ui_exc,            \* exception that left display_pesticide_recommendations
    pest_classes,      \* DataPreprocessor.pest_classes: dict pest name -> index
    class_mapping,     \* DataPreprocessor.class_mapping: reserved dict, never filled
    image_files,       \* processed_data/images/<class>: numbers k of <class>_<k>.jpg
    mapping_json,      \* processed_data/class_mapping.json
    pre_last,          \* the DataPreprocessor method that ran last
    copy_calls,        \* per class, the copy_image_with_class calls made so far
    train_files,       \* processed_data/train/<class>: numbers of the files in it
    val_files,         \* processed_data/val/<class>: numbers of the files in it
    split_result,      \* outcome of create_train_val_split, NoCall before it
    model_file,        \* models/pest_detection_model.h5: "missing" | "ok"
    detector,          \* the PestDetector object, or NoObject
    det_pc,            \* "start" | "ready" | "failed" | "predicted"
    det_image,         \* argument of the last predict_pest call
    det_result,        \* outcome of the last PestDetector call
    recommender,       \* PestDetectionApp.recommender: "None" | "ready"
    app_pc,            \* "start" | "constructed" | "done" (one script run)
    page,              \* streamlit elements of the current script run
    app_calls,         \* methods the current script run has entered
    app_exc,           \* exception that ended the current script run
    uploaded_file,     \* the file_uploader widget's value
    clicked,           \* the Detect Pest button was pressed for this run
    disk_files,        \* files under processed_data: slot -> [present, dir, kind]
    clean_pc,          \* clean_folder: "idle" | "walking" | "done"
    clean_arg,         \* the folder clean_folder was called with
    clean_todo,        \* directories os.walk has still to visit
    clean_listing,     \* files of the directory being visited, not yet examined
    clean_before,      \* files as they were when clean_folder was called
    walk_last,         \* the last extract_pest_class call or image met by a walk
    pestopia,          \* data/pestopia: [exists, files], files in os.walk order
    default_csv,       \* data/default_pesticide_db.csv has been written
    load_result,       \* outcome of PesticideRecommender(), NoCall before it
    class_indices,     \* train_generator.class_indices: class name -> output index
    train_result,      \* outcome of the training script, NoCall before it
    sys_existing,      \* which of run_system's required files exist
    sys_pc,            \* run_system.main: "start" | "setup" | "app" | "exit"
    sys_missing,       \* missing_files, as check_requirements returned it
    sys_log,           \* the setup commands run so far, each with its outcome
    sys_setup,         \* what setup_system returned: "none" | "True" | "False"
    sys_app            \* run_app: "not_run", or how the launched app ended

rec_vars == <<pesticide_db, rec_pc, rec_query, rec_result, ui, ui_exc>>

split_vars == <<copy_calls, train_files, val_files, split_result>>

pre_vars == <<pest_classes, class_mapping, image_files, mapping_json, pre_last, split_vars>>

det_vars == <<model_file, detector, det_pc, det_image, det_result>>

app_vars == <<recommender, app_pc, page, app_calls, app_exc, uploaded_file, clicked>>

clean_vars == <<disk_files, clean_pc, clean_arg, clean_todo, clean_listing, clean_before>>

sys_vars == <<sys_existing, sys_pc, sys_missing, sys_log, sys_setup, sys_app>>

load_vars == <<pestopia, default_csv, load_result>>

train_vars == <<class_indices, train_result>>

ext_vars == <<clean_vars, sys_vars, walk_last, load_vars, train_vars>>

core_vars == <<rec_vars, pre_vars, det_vars, app_vars>>

not_clean_vars == <<core_vars, sys_vars, walk_last, load_vars, train_vars>>

not_sys_vars == <<core_vars, clean_vars, walk_last, load_vars, train_vars>>

vars == <<rec_vars, pre_vars, det_vars, app_vars, ext_vars>>

(***************************************************************************)
(* Bounds                                                                  *)
(***************************************************************************)
MaxRows == 2
MaxNameLen == 1
MaxQueryLen == 2
MaxImages == 4
MaxFiles == 2

NameChars == {"A", "."}
QueryChars == {"A", "b", ".", "(", " "}

SeqsUpTo(S, n) == UNION {[1..k -> S] : k \in 0..n}

\* Pest-name cells as read_csv delivers them: an empty cell is read as a
\* missing value, so a name that is a string has at least one character
PestNames == SeqsUpTo(NameChars, MaxNameLen) \ {<<>>}
Queries == SeqsUpTo(QueryChars, MaxQueryLen)

(***************************************************************************)
(* Python string operations                                                *)
(***************************************************************************)
UpperCase ==
    <<"A", "B", "C", "D", "E", "F", "G", "H", "I", "J", "K", "L", "M",
      "N", "O", "P", "Q", "R", "S", "T", "U", "V", "W", "X", "Y", "Z">>

LowerCase ==
    <<"a", "b", "c", "d", "e", "f", "g", "h", "i", "j", "k", "l", "m",
      "n", "o", "p", "q", "r", "s", "t", "u", "v", "w", "x", "y", "z">>

\* the lower-case letter of each upper-case letter
LowerOf ==
    [c \in {UpperCase[i] : i \in DOMAIN UpperCase} |->
        LowerCase[CHOOSE i \in DOMAIN UpperCase : UpperCase[i] = c]]

\* str.lower() on one character
LowerChar(c) == IF c \in DOMAIN LowerOf THEN LowerOf[c] ELSE c

\* str.lower()
LowerStr(s) == [i \in DOMAIN s |-> LowerChar(s[i])]

\* str.strip(): drops leading and trailing whitespace
RECURSIVE Strip(_)
Strip(s) ==
    IF s = <<>> THEN s
    ELSE IF Head(s) = " " THEN Strip(Tail(s))
    ELSE IF s[Len(s)] = " " THEN Strip(SubSeq(s, 1, Len(s) - 1))
    ELSE s

\* p in s  (literal substring test)
PyIn(p, s) ==
    \E i \in 1..(Len(s) - Len(p) + 1) :
        \A j \in 1..Len(p) : s[i + j - 1] = p[j]

\* re.compile(pat) raises re.error: an opening parenthesis that is never closed
ReCompileFails(pat) == \E j \in 1..Len(pat) : pat[j] = "("

\* re.search(pat, s) is not None, for a pattern that compiles: "." matches any
\* character, every other character of the alphabet matches itself
ReSearch(pat, s) ==
    \E i \in 1..(Len(s) - Len(pat) + 1) :
        \A j \in 1..Len(pat) : pat[j] = "." \/ s[i + j - 1] = pat[j]

(***************************************************************************)
(* The pesticide table                                                     *)
(***************************************************************************)
DefaultColumns == <<"pest_name", "pesticide_name", "application_rate", "effectiveness">>
PestopiaColumns == <<"Pest Name", "Most Commonly Used Pesticides">>
ForeignColumns == <<"Pest", "pesticide_name">>
NoPesticideColumns == <<"pest_name", "Chemical">>

Schemas == {DefaultColumns, PestopiaColumns, ForeignColumns, NoPesticideColumns}

\* col.lower() for the column names above
ColLower(col) ==
    CASE col = "Pest Name" -> "pest name"
      [] col = "Most Commonly Used Pesticides" -> "most commonly used pesticides"
      [] col = "Pest" -> "pest"
      [] col = "Chemical" -> "chemical"
      [] OTHER -> col

Range(f) == {f[i] : i \in DOMAIN f}

\* The last column whose lower-cased name is in `accepted`, or "None"
RECURSIVE FindColumn(_, _)
FindColumn(columns, accepted) ==
    IF columns = <<>> THEN "None"
    ELSE IF ColLower(columns[Len(columns)]) \in accepted
         THEN columns[Len(columns)]
         ELSE FindColumn(SubSeq(columns, 1, Len(columns) - 1), accepted)

PestCol(db) == FindColumn(db.columns, {"pest name", "pest_name"})
PesticideCol(db) == FindColumn(db.columns, {"most commonly used pesticides", "pesticide_name"})

\* A table: the pest-name cell of row i holds names[i], every other cell of
\* row i holds i, which tells the rows apart
MakeDb(columns, names) ==
    [columns |-> columns,
     names   |-> names]

Cell(db, i, col) ==
    IF ColLower(col) \in {"pest name", "pest_name", "pest"} THEN db.names[i] ELSE i

Databases ==
    {MakeDb(c, n) : c \in Schemas, n \in SeqsUpTo(PestNames, MaxRows)}

NRows(db) == Len(db.names)

\* self.pesticide_db = None, before load_pesticide_database has run
NoneDb == [none |-> TRUE]

(***************************************************************************)
(* PesticideRecommender.get_recommendations                                *)
(***************************************************************************)
\* Rows selected by str.lower().str.contains(pest_name_clean, na=False):
\* the pattern is a regular expression
DirectMatch(db, clean) ==
    {i \in 1..NRows(db) : ReSearch(clean, LowerStr(Cell(db, i, PestCol(db))))}

\* Series.unique(): the distinct values in order of first appearance
RECURSIVE Unique(_)
Unique(s) ==
    IF s = <<>> THEN <<>>
    ELSE LET front == Unique(SubSeq(s, 1, Len(s) - 1))
             last  == s[Len(s)]
         IN  IF last \in Range(front) THEN front ELSE Append(front, last)

PartialHit(clean, pest) == PyIn(clean, LowerStr(pest)) \/ PyIn(LowerStr(pest), clean)

\* The loop without its break: the last pest that hits wins
PartialMatchNoBreak(db, clean, pests) ==
    LET hits == {k \in 1..Len(pests) : PartialHit(clean, pests[k])}
    IN  IF hits = {} THEN {}
        ELSE LET last == CHOOSE k \in hits : \A h \in hits : h <= k
             IN  {i \in 1..NRows(db) : Cell(db, i, PestCol(db)) = pests[last]}

\* The loop over unique(): rows of the first pest that hits, then break
RECURSIVE PartialMatch(_, _, _)
PartialMatch(db, clean, pests) ==
    IF pests = <<>> THEN {}
    ELSE IF PartialHit(clean, Head(pests))
         THEN {i \in 1..NRows(db) : Cell(db, i, PestCol(db)) = Head(pests)}
         ELSE PartialMatch(db, clean, Tail(pests))

PestColumnValues(db) == [i \in 1..NRows(db) |-> Cell(db, i, PestCol(db))]

Matches(db, clean) ==
    IF DirectMatch(db, clean) # {} THEN DirectMatch(db, clean)
    ELSE PartialMatch(db, clean, Unique(PestColumnValues(db)))

\* One recommendation record, built from row i
RecFields(db) ==
    {"pest_name", "pesticide"}
        \cup ({"application_rate", "effectiveness"} \cap Range(db.columns))

MakeRec(db, i) ==
    [k \in RecFields(db) |->
        IF k = "pest_name" THEN Cell(db, i, PestCol(db))
        ELSE IF k = "pesticide" THEN Cell(db, i, PesticideCol(db))
        ELSE Cell(db, i, k)]

\* The rows of a set in table order
RECURSIVE InOrder(_, _)
InOrder(rows, n) ==
    IF n = 0 THEN <<>>
    ELSE IF n \in rows THEN Append(InOrder(rows, n - 1), n)
    ELSE InOrder(rows, n - 1)

Returned(v) == [kind |-> "return", value |-> v]
Raised(e) == [kind |-> "raise", value |-> e]

\* only the pest-name column is required
GetRecommendationsPestColumnOnly(db, pest_name) ==
    LET clean == Strip(LowerStr(pest_name)) IN
    IF db = NoneDb THEN Returned(<<>>)
    ELSE IF PestCol(db) = "None" THEN Returned(<<>>)
    ELSE IF ReCompileFails(clean) THEN Raised("re.error")
    ELSE LET rows == InOrder(Matches(db, clean), NRows(db))
         IN  Returned([n \in 1..Len(rows) |-> MakeRec(db, rows[n])])

get_recommendations(db, pest_name) ==
    LET clean == Strip(LowerStr(pest_name)) IN
    IF db = NoneDb THEN Returned(<<>>)
    ELSE IF PestCol(db) = "None" \/ PesticideCol(db) = "None" THEN Returned(<<>>)
    ELSE IF ReCompileFails(clean) THEN Raised("re.error")
    ELSE LET rows == InOrder(Matches(db, clean), NRows(db))
         IN  Returned([n \in 1..Len(rows) |-> MakeRec(db, rows[n])])

(***************************************************************************)
(* PestDetectionApp.display_pesticide_recommendations                      *)
(***************************************************************************)
\* Fields of a record that the card template reads, in the order it reads them
CardFields == <<"effectiveness", "pesticide_name", "application_rate">>

\* The for loop over the records: a card per record, until a record lacks a
\* field the template subscripts, which raises KeyError
RECURSIVE RenderCards(_, _)
RenderCards(recs, shown) ==
    IF recs = <<>> THEN [items |-> Append(shown, "safety_notes"), exc |-> "none"]
    ELSE IF Range(CardFields) \subseteq DOMAIN Head(recs)
         THEN RenderCards(Tail(recs), Append(shown, "card"))
         ELSE [items |-> shown, exc |-> "KeyError"]

\* The page with the success branch taken whatever the lookup returned
DisplayAlwaysSuccess(lookup) ==
    IF lookup.kind = "raise" THEN [items |-> <<"header">>, exc |-> lookup.value]
    ELSE RenderCards(lookup.value, <<"header", "success">>)

display_pesticide_recommendations(lookup) ==
    IF lookup.kind = "raise" THEN [items |-> <<"header">>, exc |-> lookup.value]
    ELSE IF lookup.value # <<>>
         THEN RenderCards(lookup.value, <<"header", "success">>)
         ELSE [items |-> <<"header", "no_recommendations", "consult_expert">>,
               exc |-> "none"]

(***************************************************************************)
(* Python dict (insertion-ordered) and JSON object                         *)
(***************************************************************************)
\* A dict: its keys in insertion order and the value of each key
EmptyDict == [keys |-> <<>>, val |-> <<>>]

DictHas(d, k) == k \in Range(d.keys)

DictLen(d) == Len(d.keys)

\* d[k] = v
DictSet(d, k, v) ==
    [keys |-> IF DictHas(d, k) THEN d.keys ELSE Append(d.keys, k),
     val  |-> [x \in Range(d.keys) \cup {k} |-> IF x = k THEN v ELSE d.val[x]]]

\* json.dump(d): the members "key": value of the object, in insertion order
JsonDump(d) == [n \in 1..DictLen(d) |-> <<d.keys[n], d.val[d.keys[n]]>>]

(***************************************************************************)
(* DataPreprocessor                                                        *)
(***************************************************************************)
ClassNames == {"aphid", "mite", "thrips"}

NoFile == [exists |-> FALSE, members |-> <<>>]

\* if pest_class not in self.pest_classes: assign the next index, with the
\* index taken one too high
AssignIndexOffByOne(classes, pest_class) ==
    IF DictHas(classes, pest_class) THEN classes
    ELSE DictSet(classes, pest_class, DictLen(classes) + 1)

\* if pest_class not in self.pest_classes:
\*     self.pest_classes[pest_class] = len(self.pest_classes)
AssignIndex(classes, pest_class) ==
    IF DictHas(classes, pest_class) THEN classes
    ELSE DictSet(classes, pest_class, DictLen(classes))

\* the number of the newest file is used again
NextFileNumberOverwriting(files) ==
    IF files = {} THEN 0 ELSE Cardinality(files) - 1

\* f"{pest_class}_{len(os.listdir(class_dir))}.jpg", as its number
NextFileNumber(files) == Cardinality(files)

\* create_train_val_split has not been called
NoCall == [kind |-> "none", value |-> <<>>]

SplitIdle ==
    /\ copy_calls = [c \in ClassNames |-> 0]
    /\ train_files = [c \in ClassNames |-> {}]
    /\ val_files = [c \in ClassNames |-> {}]
    /\ split_result = NoCall

PreIdle ==
    /\ pest_classes = EmptyDict
    /\ class_mapping = EmptyDict
    /\ image_files = [c \in ClassNames |-> {}]
    /\ mapping_json = NoFile
    /\ pre_last = "init"
    /\ SplitIdle

\* No call in progress
NoQuery == <<"none">>

RecIdle ==
    /\ pesticide_db = NoneDb
    /\ rec_pc = "idle"
    /\ rec_query = NoQuery
    /\ rec_result = Returned(<<>>)
    /\ ui = <<>>
    /\ ui_exc = "none"

NoObject == [built |-> FALSE]

NoImage == [exists |-> FALSE]

DetIdle ==
    /\ model_file = "missing"
    /\ detector = NoObject
    /\ det_pc = "start"
    /\ det_image = NoImage
    /\ det_result = Returned(<<>>)

NoUpload == [some |-> FALSE]

AppIdle ==
    /\ recommender = "None"
    /\ app_pc = "start"
    /\ page = <<>>
    /\ app_calls = {}
    /\ app_exc = "none"
    /\ uploaded_file = NoUpload
    /\ clicked = FALSE

\* the copy_image_with_class calls made so far
ImagesCopied ==
    LET RECURSIVE Sum(_)
        Sum(S) == IF S = {} THEN 0
                  ELSE LET c == CHOOSE x \in S : TRUE
                       IN  copy_calls[c] + Sum(S \ {c})
    IN  Sum(DOMAIN copy_calls)

\* what one call of copy_image_with_class does to the preprocessor's state
copy_image_with_class(pest_class) ==
    /\ pest_classes' = AssignIndex(pest_classes, pest_class)
    /\ image_files' = [image_files EXCEPT ![pest_class] =
                          @ \cup {NextFileNumber(@)}]
    /\ copy_calls' = [copy_calls EXCEPT ![pest_class] = @ + 1]
    /\ pre_last' = "copy_image_with_class"
    /\ UNCHANGED <<class_mapping, mapping_json, train_files, val_files, split_result>>

CopyImageWithClass(pest_class) ==
    /\ ImagesCopied < MaxImages
    /\ copy_image_with_class(pest_class)
    /\ UNCHANGED <<rec_vars, det_vars, app_vars, ext_vars>>

SaveClassMapping ==
    /\ mapping_json' = [exists |-> TRUE, members |-> JsonDump(pest_classes)]
    /\ pre_last' = "save_class_mapping"
    /\ UNCHANGED <<pest_classes, class_mapping, image_files, split_vars>>
    /\ UNCHANGED <<rec_vars, det_vars, app_vars, ext_vars>>

\* No file under processed_data/train or processed_data/val, no cleaning run
NoDir == <<>>

AbsentFile == [present |-> FALSE, dir |-> NoDir, kind |-> "none"]

CleanIdle ==
    /\ disk_files = <<>>
    /\ clean_pc = "idle"
    /\ clean_arg = NoDir
    /\ clean_todo = {}
    /\ clean_listing = {}
    /\ clean_before = <<>>

SysIdle ==
    /\ sys_existing = {}
    /\ sys_pc = "start"
    /\ sys_missing = {}
    /\ sys_log = <<>>
    /\ sys_setup = "none"
    /\ sys_app = "not_run"

\* No path has been classified
NoWalk == [kind |-> "none"]

WalkIdle == walk_last = NoWalk

\* No data/pestopia directory, no recommender constructed
LoadIdle ==
    /\ pestopia = [exists |-> FALSE, files |-> <<>>]
    /\ default_csv = FALSE
    /\ load_result = NoCall

\* The training script has not run
TrainIdle ==
    /\ class_indices = <<>>
    /\ train_result = NoCall

ExtIdle == CleanIdle /\ SysIdle /\ WalkIdle /\ LoadIdle /\ TrainIdle

\* train_test_split(images, test_size=0.2): n_test = ceil(0.2 * n_samples)
TestCount(n) == (n + 4) \div 5

\* train_test_split(images, test_size=0.2): n_train = n_samples - n_test
TrainCount(n) == n - TestCount(n)

\* train_test_split raises ValueError when the train set would be empty
SplitRaises(n) == TrainCount(n) = 0

\* The classes of pest_classes.keys() the loop of create_train_val_split
\* gets through: those before the first one whose split raises
RECURSIVE SplitDone(_)
SplitDone(keys) ==
    IF keys = <<>> \/ SplitRaises(Cardinality(image_files[Head(keys)])) THEN {}
    ELSE {Head(keys)} \cup SplitDone(Tail(keys))

\* val_images of one class: TestCount of its images if the loop gets to the
\* class, none otherwise
ValImages(c) ==
    IF c \in SplitDone(pest_classes.keys)
    THEN {v \in SUBSET image_files[c] :
             Cardinality(v) = TestCount(Cardinality(image_files[c]))}
    ELSE {{}}

\* val_images of every class of S, as functions from the classes
RECURSIVE ValChoices(_)
ValChoices(S) ==
    IF S = {} THEN {<<>>}
    ELSE LET c == CHOOSE x \in S : TRUE
         IN  {(c :> v) @@ f : v \in ValImages(c), f \in ValChoices(S \ {c})}

\* for pest_class in self.pest_classes.keys(): split the images of the class
\* and copy them to train/<class> and val/<class>.  Which images the seeded
\* shuffle sends to validation is left open; how many is not.
CreateTrainValSplit ==
    /\ split_result = NoCall
    /\ \E val \in ValChoices(ClassNames) :
          /\ val_files' = [c \in ClassNames |-> val_files[c] \cup val[c]]
          /\ train_files' = [c \in ClassNames |->
                                IF c \in SplitDone(pest_classes.keys)
                                THEN train_files[c] \cup (image_files[c] \ val[c])
                                ELSE train_files[c]]
    /\ split_result' = IF SplitDone(pest_classes.keys) = Range(pest_classes.keys)
                       THEN Returned("None")
                       ELSE Raised("ValueError")
    /\ pre_last' = "create_train_val_split"
    /\ UNCHANGED <<pest_classes, class_mapping, image_files, mapping_json, copy_calls>>
    /\ UNCHANGED <<rec_vars, det_vars, app_vars, ext_vars>>

PreInit == PreIdle /\ RecIdle /\ DetIdle /\ AppIdle /\ ExtIdle

PreNext ==
    \/ \E c \in ClassNames : CopyImageWithClass(c)
    \/ SaveClassMapping
    \/ CreateTrainValSplit

SpecPre == PreInit /\ [][PreNext]_vars

(***************************************************************************)
(* DataPreprocessor: properties                                            *)
(***************************************************************************)
SeenClasses == {c \in ClassNames : image_files[c] # {}}

\* pest_classes is a one-to-one map from the classes seen onto 0..n-1
DenseInjective ==
    /\ Range(pest_classes.keys) = SeenClasses
    /\ DOMAIN pest_classes.val = SeenClasses
    /\ {pest_classes.val[c] : c \in SeenClasses} = 0..(Cardinality(SeenClasses) - 1)
    /\ \A c, d \in SeenClasses : pest_classes.val[c] = pest_classes.val[d] => c = d

\* the file holds one member per class, with the index pest_classes gives it
SavedUnchanged ==
    pre_last = "save_class_mapping" =>
        /\ mapping_json.exists
        /\ Len(mapping_json.members) = Cardinality(SeenClasses)
        /\ {m[1] : m \in Range(mapping_json.members)} = SeenClasses
        /\ \A m \in Range(mapping_json.members) : m[2] = pest_classes.val[m[1]]

\* an index, once assigned, stays
IndexStable ==
    \A c \in DOMAIN pest_classes.val :
        c \in DOMAIN pest_classes'.val /\ pest_classes'.val[c] = pest_classes.val[c]

\* C4: after any sequence of copy_image_with_class calls pest_classes maps the
\* class names seen so far one-to-one onto 0..n-1, an index once assigned to a
\* class never changes, and save_class_mapping writes that map unchanged.
C4_DenseStableIndices ==
    /\ [](DenseInjective /\ SavedUnchanged)
    /\ [][IndexStable]_vars

\* C4 witness: three classes were seen, one of them more than once, and the
\* map was saved.
C4_Witness ==
    /\ Cardinality(SeenClasses) = 3
    /\ \E c \in ClassNames : Cardinality(image_files[c]) > 1
    /\ pre_last = "save_class_mapping"

(***************************************************************************)
(* PestDetector                                                            *)
(***************************************************************************)
\* Units of the model's output layer
NumOutputs == 3

\* Probabilities in tenths
Tenths == 0..10

RECURSIVE SumUpTo(_, _)
SumUpTo(p, n) == IF n < 0 THEN 0 ELSE p[n] + SumUpTo(p, n - 1)

\* model.predict(...)[0]: one probability per output unit, indexed from 0,
\* summing to one
Predictions ==
    {p \in [0..(NumOutputs - 1) -> Tenths] : SumUpTo(p, NumOutputs - 1) = 10}

\* json.load(f): the object's members as a dict, a repeated key keeps its
\* last value
RECURSIVE JsonLoad(_)
JsonLoad(members) ==
    IF members = <<>> THEN EmptyDict
    ELSE LET last == members[Len(members)]
         IN  DictSet(JsonLoad(SubSeq(members, 1, Len(members) - 1)), last[1], last[2])

\* {v: k for k, v in class_mapping.items()}
RECURSIVE ReverseItems(_, _)
ReverseItems(d, n) ==
    IF n = 0 THEN EmptyDict
    ELSE DictSet(ReverseItems(d, n - 1), d.val[d.keys[n]], d.keys[n])

IdxToClass(mapping) == ReverseItems(mapping, DictLen(mapping))

\* dict.get(k, default)
DictGet(d, k, default) == IF DictHas(d, k) THEN d.val[k] ELSE default

\* PestDetector()
PestDetectorInit(model, mapping) ==
    IF model = "missing"
    THEN Raised("FileNotFoundError: Model not found")
    ELSE IF ~mapping.exists
    THEN Raised("FileNotFoundError: Class mapping not found")
    ELSE Returned([built |-> TRUE,
                   class_mapping |-> JsonLoad(mapping.members),
                   idx_to_class |-> IdxToClass(JsonLoad(mapping.members))])

\* The index of the last maximal entry
ArgMaxLast(p) ==
    CHOOSE i \in DOMAIN p :
        /\ \A j \in DOMAIN p : p[j] <= p[i]
        /\ \A j \in DOMAIN p : p[j] = p[i] => j <= i

\* np.argmax: the index of the first maximal entry
ArgMax(p) ==
    CHOOSE i \in DOMAIN p :
        /\ \A j \in DOMAIN p : p[j] <= p[i]
        /\ \A j \in DOMAIN p : p[j] = p[i] => i <= j

\* predict_pest(img_path): img is [exists, preds], preds what the model
\* outputs for the image
predict_pest(det, img) ==
    IF ~img.exists THEN Raised("FileNotFoundError: Image not found")
    ELSE LET predictions == img.preds
             class_idx   == ArgMax(predictions)
             confidence  == predictions[class_idx]
             pest_name   == DictGet(det.idx_to_class, class_idx, "Unknown")
         IN  Returned(<<pest_name, confidence>>)

\* The methods class PestDetector defines
DetectorMethods == {"__init__", "preprocess_image", "predict_pest", "visualize_prediction"}

\* The class-mapping files preprocessing can leave behind
RECURSIVE DictOfKeys(_)
DictOfKeys(keys) ==
    IF keys = <<>> THEN EmptyDict
    ELSE AssignIndex(DictOfKeys(SubSeq(keys, 1, Len(keys) - 1)), keys[Len(keys)])

DistinctSeqs(S) ==
    {q \in SeqsUpTo(S, Cardinality(S)) : \A i, j \in DOMAIN q : q[i] = q[j] => i = j}

MappingFiles ==
    {NoFile} \cup
    {[exists |-> TRUE, members |-> JsonDump(DictOfKeys(q))] : q \in DistinctSeqs(ClassNames)}

Images == {NoImage} \cup {[exists |-> TRUE, preds |-> p] : p \in Predictions}

(***************************************************************************)
(* Recommender: state machine                                              *)
(***************************************************************************)
RecInit ==
    /\ pesticide_db \in Databases
    /\ rec_pc = "idle"
    /\ rec_query = NoQuery
    /\ rec_result = Returned(<<>>)
    /\ ui = <<>>
    /\ ui_exc = "none"
    /\ PreIdle
    /\ DetIdle
    /\ AppIdle
    /\ ExtIdle

GetRecommendations(q) ==
    /\ rec_pc = "idle"
    /\ rec_pc' = "returned"
    /\ rec_query' = q
    /\ rec_result' = get_recommendations(pesticide_db, q)
    /\ UNCHANGED <<pesticide_db, ui, ui_exc, pre_vars, det_vars, app_vars, ext_vars>>

DisplayPesticideRecommendations(q) ==
    /\ rec_pc = "idle"
    /\ rec_pc' = "displayed"
    /\ rec_query' = q
    /\ rec_result' = get_recommendations(pesticide_db, q)
    /\ LET rendered == display_pesticide_recommendations(rec_result')
       IN  /\ ui' = rendered.items
           /\ ui_exc' = rendered.exc
    /\ UNCHANGED <<pesticide_db, pre_vars, det_vars, app_vars, ext_vars>>

\* The caller has consumed the result and is ready for the next request
RecReturn ==
    /\ rec_pc # "idle"
    /\ rec_pc' = "idle"
    /\ rec_query' = NoQuery
    /\ rec_result' = Returned(<<>>)
    /\ ui' = <<>>
    /\ ui_exc' = "none"
    /\ UNCHANGED <<pesticide_db, pre_vars, det_vars, app_vars, ext_vars>>

RecNext ==
    \/ \E q \in Queries : GetRecommendations(q)
    \/ \E q \in Queries : DisplayPesticideRecommendations(q)
    \/ RecReturn

SpecRec == RecInit /\ [][RecNext]_vars

(***************************************************************************)
(* Recommender: properties                                                 *)
(***************************************************************************)
QueryClean == Strip(LowerStr(rec_query))

ColumnsFound == PestCol(pesticide_db) # "None" /\ PesticideCol(pesticide_db) # "None"

AllRows == 1..NRows(pesticide_db)

LowerName(i) == LowerStr(pesticide_db.names[i])

\* Rows whose lower-cased pest name contains the cleaned query literally
LiteralRows == {i \in AllRows : PyIn(QueryClean, LowerName(i))}

\* Rows whose pest name contains the query or is contained in it
EitherWayRows ==
    {i \in AllRows : PyIn(QueryClean, LowerName(i)) \/ PyIn(LowerName(i), QueryClean)}

\* The rows the returned records were built from
ReturnedRows == {rec_result.value[n].pesticide : n \in DOMAIN rec_result.value}

RecordsOf(i) == {n \in DOMAIN rec_result.value : rec_result.value[n].pesticide = i}

InSeq(x, s) == \E n \in DOMAIN s : s[n] = x

\* C1: for a table with a pest-name column and every query, the call returns
\* one record for each row whose lower-cased pest name contains the cleaned
\* query as a literal substring, and when such a row exists it returns no
\* record for any other row.
C1_LiteralSubstringRows ==
    (rec_pc = "returned" /\ ColumnsFound) =>
        /\ rec_result.kind = "return"
        /\ \A i \in LiteralRows : Cardinality(RecordsOf(i)) = 1
        /\ LiteralRows # {} => ReturnedRows \subseteq LiteralRows

\* C2: an empty (or whitespace-only) query, and a query that matches no pest
\* name, returns the empty list and does not raise.
C2_EmptyOrNoMatchReturnsEmpty ==
    (rec_pc = "returned" /\ (QueryClean = <<>> \/ EitherWayRows = {})) =>
        rec_result = Returned(<<>>)

C6_RecordFields ==
    (rec_pc \in {"returned", "displayed"} /\ rec_result.kind = "return") =>
        /\ \A n \in DOMAIN rec_result.value :
              {"pest_name", "pesticide_name", "application_rate", "effectiveness"}
                  \subseteq DOMAIN rec_result.value[n]
        /\ rec_pc = "displayed" => ui_exc = "none"

\* C7: when the lookup returns no record the page shows the "no specific
\* pesticide recommendations found" message and no card; the success message
\* and the cards appear only when the lookup returned at least one record.
C7_NoMatchMessage ==
    rec_pc = "displayed" =>
        /\ rec_result = Returned(<<>>) =>
              (InSeq("no_recommendations", ui) /\ ~InSeq("card", ui))
        /\ (InSeq("card", ui) \/ InSeq("success", ui)) =>
              (rec_result.kind = "return" /\ Len(rec_result.value) >= 1)

\* C7 witness: a lookup for a non-empty pest name found nothing and the page
\* shows the message.
C7_Witness ==
    /\ rec_pc = "displayed"
    /\ QueryClean # <<>>
    /\ ColumnsFound
    /\ NRows(pesticide_db) > 0
    /\ rec_result = Returned(<<>>)
    /\ InSeq("no_recommendations", ui)

(***************************************************************************)
(* PestDetector: state machine                                             *)
(***************************************************************************)
DetInit ==
    /\ model_file \in {"missing", "ok"}
    /\ mapping_json \in MappingFiles
    /\ detector = NoObject
    /\ det_pc = "start"
    /\ det_image = NoImage
    /\ det_result = Returned(<<>>)
    /\ pest_classes = EmptyDict
    /\ class_mapping = EmptyDict
    /\ image_files = [c \in ClassNames |-> {}]
    /\ pre_last = "init"
    /\ SplitIdle
    /\ RecIdle
    /\ AppIdle
    /\ ExtIdle

DetConstruct ==
    /\ det_pc = "start"
    /\ det_result' = PestDetectorInit(model_file, mapping_json)
    /\ detector' = IF det_result'.kind = "return" THEN det_result'.value ELSE NoObject
    /\ det_pc' = IF det_result'.kind = "return" THEN "ready" ELSE "failed"
    /\ UNCHANGED <<model_file, det_image, rec_vars, pre_vars, app_vars, ext_vars>>

PredictPest(img) ==
    /\ det_pc = "ready"
    /\ det_image' = img
    /\ det_result' = predict_pest(detector, img)
    /\ det_pc' = "predicted"
    /\ UNCHANGED <<model_file, detector, rec_vars, pre_vars, app_vars, ext_vars>>

\* The caller has consumed the prediction
DetReturn ==
    /\ det_pc = "predicted"
    /\ det_pc' = "ready"
    /\ det_image' = NoImage
    /\ det_result' = Returned(<<>>)
    /\ UNCHANGED <<model_file, detector, rec_vars, pre_vars, app_vars, ext_vars>>

DetNext ==
    \/ DetConstruct
    \/ \E img \in Images : PredictPest(img)
    \/ DetReturn

SpecDet == DetInit /\ [][DetNext]_vars

(***************************************************************************)
(* PestDetector: properties                                                *)
(***************************************************************************)
Predicted == det_pc = "predicted" /\ det_result.kind = "return"

MaxProb == CHOOSE m \in Range(det_image.preds) : \A x \in Range(det_image.preds) : x <= m

FirstMaxIndex ==
    CHOOSE i \in DOMAIN det_image.preds :
        /\ det_image.preds[i] = MaxProb
        /\ \A j \in DOMAIN det_image.preds : det_image.preds[j] = MaxProb => i <= j

\* The names class_mapping.json gives index i
NamesOfIndex(i) == {m[1] : m \in {x \in Range(mapping_json.members) : x[2] = i}}

\* Indices ordered by descending probability: the first n of them
IsTopN(ranked, n) ==
    /\ Len(ranked) = n
    /\ \A a, b \in 1..n : a < b => ranked[a][2] >= ranked[b][2]
    /\ \A a \in 1..n : ranked[a][2] \in Range(det_image.preds)
    /\ \A x \in Range(det_image.preds) :
          x > ranked[n][2] => \E a \in 1..n : ranked[a][2] = x

\* C8: every detection result carries a ranked list of the three most
\* probable classes in descending order, and the primary pest with its
\* confidence is the first member of that list.
C8_Top3Consistent ==
    Predicted =>
        /\ Len(det_result.value) >= 3
        /\ IsTopN(det_result.value[3], 3)
        /\ det_result.value[3][1] = <<det_result.value[1], det_result.value[2]>>

\* C10: predict_pest returns the class of maximal probability with exactly
\* that probability as confidence; the name is the class-mapping name of the
\* arg-max index, or "Unknown" when the mapping has no entry for it.
C10_ArgMaxPrediction ==
    Predicted =>
        /\ det_result.value[2] = MaxProb
        /\ IF NamesOfIndex(FirstMaxIndex) = {}
           THEN det_result.value[1] = "Unknown"
           ELSE det_result.value[1] \in NamesOfIndex(FirstMaxIndex)

\* C10 witness: two classes tie for the maximum, the arg-max index has a name
\* in the mapping and that name was returned.
C10_Witness ==
    /\ Predicted
    /\ Cardinality({i \in DOMAIN det_image.preds : det_image.preds[i] = MaxProb}) = 2
    /\ det_result.value[1] \in ClassNames
    /\ FirstMaxIndex > 0

(***************************************************************************)
(* PestDetectionApp                                                        *)
(***************************************************************************)
\* confidence_threshold=0.3, in tenths
ConfidenceThreshold == 3

\* self.detector.<method>(...): a method the class does not define raises
CallDetector(method) ==
    IF method \in DetectorMethods THEN "none" ELSE "AttributeError"

\* initialize_components: build the detector, then the recommender; any
\* exception is reported with st.error and leaves what was not built at None
initialize_components(model, mapping) ==
    LET built == PestDetectorInit(model, mapping) IN
    IF built.kind = "return"
    THEN [detector |-> built.value, recommender |-> "ready", page |-> <<>>]
    ELSE [detector |-> NoObject, recommender |-> "None",
          page |-> <<IF built.value = "FileNotFoundError: Model not found"
                     THEN "init_error: Model not found"
                     ELSE "init_error: Class mapping not found">>]

\* process_image: the spinner, then self.detector.detect_pest(...)
process_image(image) ==
    [items |-> <<"spinner">>, exc |-> CallDetector("detect_pest")]

\* run() past the initialization check: the uploader and what follows it
RunInitialized(upload, pressed) ==
    LET head == <<"header", "intro", "uploader">> IN
    IF ~upload.some
    THEN [items |-> head, calls |-> {}, exc |-> "none"]
    ELSE IF ~pressed
    THEN [items |-> head \o <<"uploaded_image", "button", "how_to_use">>,
          calls |-> {}, exc |-> "none"]
    ELSE LET done == process_image(upload) IN
         IF done.exc # "none"
         THEN [items |-> head \o <<"uploaded_image", "button">> \o done.items,
               calls |-> {"process_image"}, exc |-> done.exc]
         ELSE [items |-> head \o <<"uploaded_image", "button">>
                            \o done.items \o <<"how_to_use">>,
               calls |-> {"process_image"}, exc |-> "none"]

\* run() without the check that the components were initialized
RunUnguarded(det, rec, upload, pressed) == RunInitialized(upload, pressed)

\* run(): the elements it emits, the methods it enters, the exception that
\* ends it
run(det, rec, upload, pressed) ==
    IF det = NoObject \/ rec = "None"
    THEN [items |-> <<"header", "intro", "not_initialized", "train_hint">>,
          calls |-> {}, exc |-> "none"]
    ELSE RunInitialized(upload, pressed)

Uploads == {[some |-> TRUE, preds |-> p] : p \in Predictions}

(***************************************************************************)
(* PestDetectionApp: state machine (one script run per interaction)        *)
(***************************************************************************)
AppInit ==
    /\ model_file \in {"missing", "ok"}
    /\ mapping_json \in MappingFiles
    /\ detector = NoObject
    /\ det_pc = "start"
    /\ det_image = NoImage
    /\ det_result = Returned(<<>>)
    /\ pest_classes = EmptyDict
    /\ class_mapping = EmptyDict
    /\ image_files = [c \in ClassNames |-> {}]
    /\ pre_last = "init"
    /\ SplitIdle
    /\ RecIdle
    /\ AppIdle
    /\ ExtIdle

\* app = PestDetectionApp()
AppConstruct ==
    /\ app_pc = "start"
    /\ LET made == initialize_components(model_file, mapping_json)
       IN  /\ detector' = made.detector
           /\ recommender' = made.recommender
           /\ page' = made.page
    /\ app_pc' = "constructed"
    /\ UNCHANGED <<app_calls, app_exc, uploaded_file, clicked>>
    /\ UNCHANGED <<model_file, det_pc, det_image, det_result, rec_vars, pre_vars, ext_vars>>

\* app.run()
AppRun ==
    /\ app_pc = "constructed"
    /\ LET ran == run(detector, recommender, uploaded_file, clicked)
       IN  /\ page' = page \o ran.items
           /\ app_calls' = ran.calls
           /\ app_exc' = ran.exc
    /\ app_pc' = "done"
    /\ UNCHANGED <<detector, recommender, uploaded_file, clicked>>
    /\ UNCHANGED <<model_file, det_pc, det_image, det_result, rec_vars, pre_vars, ext_vars>>

\* An interaction starts the script again with a fresh app object
Rerun ==
    /\ app_pc' = "start"
    /\ page' = <<>>
    /\ app_calls' = {}
    /\ app_exc' = "none"
    /\ detector' = NoObject
    /\ recommender' = "None"
    /\ UNCHANGED <<model_file, det_pc, det_image, det_result, rec_vars, pre_vars, ext_vars>>

\* The user picks a file in the uploader
UserUpload(file) ==
    /\ app_pc = "done"
    /\ InSeq("uploader", page)
    /\ uploaded_file' = file
    /\ clicked' = FALSE
    /\ Rerun

\* The user presses Detect Pest
UserClick ==
    /\ app_pc = "done"
    /\ InSeq("button", page)
    /\ clicked' = TRUE
    /\ UNCHANGED uploaded_file
    /\ Rerun

AppNext ==
    \/ AppConstruct
    \/ AppRun
    \/ \E f \in Uploads : UserUpload(f)
    \/ UserClick

SpecApp == AppInit /\ [][AppNext]_vars

(***************************************************************************)
(* PestDetectionApp: properties                                            *)
(***************************************************************************)
FilesMissing == model_file = "missing" \/ ~mapping_json.exists

\* C5: with the model file or the class-mapping file missing, constructing
\* the detector raises FileNotFoundError (about the model file when that one
\* is missing); initialize_components reports it as an initialization error;
\* run shows the not-initialized message and returns, and neither the file
\* uploader nor process_image is reached.
C5_MissingFilesStopApp ==
    FilesMissing =>
        /\ PestDetectorInit(model_file, mapping_json) =
              Raised(IF model_file = "missing"
                     THEN "FileNotFoundError: Model not found"
                     ELSE "FileNotFoundError: Class mapping not found")
        /\ app_pc # "start" =>
              /\ detector = NoObject
              /\ page[1] = (IF model_file = "missing"
                            THEN "init_error: Model not found"
                            ELSE "init_error: Class mapping not found")
        /\ app_pc = "done" =>
              /\ InSeq("not_initialized", page)
              /\ app_exc = "none"
        /\ ~InSeq("uploader", page)
        /\ "process_image" \notin app_calls
        /\ ~uploaded_file.some

\* C5 witness: the model file is there, the mapping file is not, and the
\* script run has ended.
C5_Witness ==
    /\ model_file = "ok"
    /\ ~mapping_json.exists
    /\ app_pc = "done"
    /\ InSeq("not_initialized", page)

MaxOf(p) == CHOOSE m \in Range(p) : \A x \in Range(p) : x <= m

\* C9: predict_pest applies no threshold; process_image compares the returned
\* confidence with 0.3, and the pest-detected branch is taken exactly when the
\* confidence reaches the threshold.
C9_CallerAppliesThreshold ==
    (app_pc = "done" /\ "process_image" \in app_calls) =>
        (InSeq("pest_card", page) <=> MaxOf(uploaded_file.preds) >= ConfidenceThreshold)

(***************************************************************************)
(* clean_invalid_images: is_image_valid and clean_folder                   *)
(***************************************************************************)
\* Directories below processed_data, as sequences of path components
TreeDirs ==
    {<<"train">>, <<"train", "aphid">>, <<"train", "aphid", "extra">>,
     <<"val">>, <<"val", "aphid">>}

\* folders = ['processed_data/train', 'processed_data/val']
folders == {<<"train">>, <<"val">>}

\* What a file is: a sound image, a file PIL cannot open, a file whose
\* verify() fails, a file whose pixel data cannot be decoded
FileKinds == {"valid", "unopenable", "bad_header", "truncated"}

FileSlots == 1..MaxFiles

FileStates ==
    {AbsentFile} \cup
    {[present |-> TRUE, dir |-> d, kind |-> k] : d \in TreeDirs, k \in FileKinds}

\* Image.open(path) raises
OpenRaises(kind) == kind = "unopenable"

\* img.verify() raises
VerifyRaises(kind) == kind = "bad_header"

\* Image.open(path) again, then convert('RGB') and resize raise
DecodeRaises(kind) == kind = "truncated"

\* try: open, verify, open, convert, resize; return True
\* except Exception: return False
is_image_valid(kind) ==
    IF OpenRaises(kind) \/ VerifyRaises(kind) \/ DecodeRaises(kind)
    THEN Returned(FALSE)
    ELSE Returned(TRUE)

IsPrefix(p, d) == Len(p) <= Len(d) /\ SubSeq(d, 1, Len(p)) = p

\* only the folder itself, without its sub-directories
WalkTopOnly(folder) == {d \in TreeDirs : d = folder}

\* os.walk(folder): the folder and every directory below it
WalkDirs(folder) == {d \in TreeDirs : IsPrefix(folder, d)}

\* for file in files of one directory os.walk yields
Listing(d) == {f \in FileSlots : disk_files[f].present /\ disk_files[f].dir = d}

CleanInit ==
    /\ disk_files \in [FileSlots -> FileStates]
    /\ clean_pc = "idle"
    /\ clean_arg = NoDir
    /\ clean_todo = {}
    /\ clean_listing = {}
    /\ clean_before = <<>>
    /\ PreIdle /\ RecIdle /\ DetIdle /\ AppIdle /\ SysIdle /\ WalkIdle /\ LoadIdle /\ TrainIdle

\* clean_folder(folder) is entered
CleanStart(folder) ==
    /\ clean_pc = "idle"
    /\ clean_pc' = "walking"
    /\ clean_arg' = folder
    /\ clean_todo' = WalkDirs(folder)
    /\ clean_listing' = {}
    /\ clean_before' = disk_files
    /\ UNCHANGED <<disk_files, not_clean_vars>>

\* os.walk yields the next directory, top-down, with the files it holds
CleanEnterDir(d) ==
    /\ clean_pc = "walking"
    /\ clean_listing = {}
    /\ d \in clean_todo
    /\ \A e \in clean_todo : IsPrefix(e, d) => e = d
    /\ clean_todo' = clean_todo \ {d}
    /\ clean_listing' = Listing(d)
    /\ UNCHANGED <<disk_files, clean_pc, clean_arg, clean_before>>
    /\ UNCHANGED not_clean_vars

\* if not is_image_valid(path): os.remove(path)
CleanFile(f) ==
    /\ clean_pc = "walking"
    /\ f \in clean_listing
    /\ clean_listing' = clean_listing \ {f}
    /\ disk_files' = IF is_image_valid(disk_files[f].kind) = Returned(FALSE)
                     THEN [disk_files EXCEPT ![f] = AbsentFile]
                     ELSE disk_files
    /\ UNCHANGED <<clean_pc, clean_arg, clean_todo, clean_before>>
    /\ UNCHANGED not_clean_vars

\* os.walk is exhausted, clean_folder returns
CleanReturn ==
    /\ clean_pc = "walking"
    /\ clean_todo = {}
    /\ clean_listing = {}
    /\ clean_pc' = "done"
    /\ UNCHANGED <<disk_files, clean_arg, clean_todo, clean_listing, clean_before>>
    /\ UNCHANGED not_clean_vars

CleanNext ==
    \/ \E folder \in folders : CleanStart(folder)
    \/ \E d \in TreeDirs : CleanEnterDir(d)
    \/ \E f \in FileSlots : CleanFile(f)
    \/ CleanReturn

SpecClean == CleanInit /\ [][CleanNext]_vars

\* the files that were under the folder when clean_folder was called
UnderFolder ==
    {f \in FileSlots : clean_before[f].present /\ IsPrefix(clean_arg, clean_before[f].dir)}

\* C11: once clean_folder(folder) has returned, every file that was under the
\* folder, at any depth, and is not a valid image is gone, every file that is
\* a valid image is still there as it was, and is_image_valid returns a
\* boolean for every kind of file, False for each kind of failure
C11_CleanFolderRemovesInvalidOnly ==
    /\ \A k \in FileKinds :
          /\ is_image_valid(k).kind = "return"
          /\ is_image_valid(k).value = (k = "valid")
    /\ clean_pc = "done" =>
          \A f \in UnderFolder :
              IF clean_before[f].kind = "valid"
              THEN disk_files[f] = clean_before[f]
              ELSE ~disk_files[f].present

C11_Witness ==
    /\ clean_pc = "done"
    /\ \E f, g \in UnderFolder :
          /\ clean_before[f].kind = "truncated"
          /\ Len(clean_before[f].dir) = 3
          /\ ~disk_files[f].present
          /\ clean_before[g].kind = "valid"
          /\ disk_files[g].present

(***************************************************************************)
(* run_system: check_requirements, setup_system, run_app, main             *)
(***************************************************************************)
required_files ==
    {"models/pest_detection_model.h5", "processed_data/class_mapping.json", "app.py"}

\* missing_files: the required files for which os.path.exists is false
check_requirements(existing) == required_files \ existing

\* steps, by the script each command runs
steps ==
    <<"download_datasets.py", "preprocess_data.py", "train_model.py",
      "pesticide_recommender.py">>

\* How one subprocess.run ends: return code 0, another return code, or an
\* exception because the command could not be started
StepOutcomes == {"exit0", "nonzero", "exception"}

\* only a command that could not be started ends the loop
StepFailedOnExceptionOnly(outcome) == outcome = "exception"

\* returncode != 0 -> return False; except Exception -> return False
StepFailed(outcome) == outcome # "exit0"

\* How subprocess.run(["streamlit", "run", "app.py"]) ends inside run_app
AppOutcomes == {"exited", "KeyboardInterrupt", "exception"}

SysInit ==
    /\ sys_existing \in SUBSET required_files
    /\ sys_pc = "start"
    /\ sys_missing = {}
    /\ sys_log = <<>>
    /\ sys_setup = "none"
    /\ sys_app = "not_run"
    /\ PreIdle /\ RecIdle /\ DetIdle /\ AppIdle /\ CleanIdle /\ WalkIdle /\ LoadIdle /\ TrainIdle

\* missing_files = check_requirements(); if missing_files: ... else: ...
MainCheck ==
    /\ sys_pc = "start"
    /\ sys_missing' = check_requirements(sys_existing)
    /\ sys_pc' = IF check_requirements(sys_existing) # {} THEN "setup" ELSE "app"
    /\ UNCHANGED <<sys_existing, sys_log, sys_setup, sys_app, not_sys_vars>>

\* one iteration of the loop of setup_system, and the return that follows it
SetupStep(outcome) ==
    /\ sys_pc = "setup"
    /\ Len(sys_log) < Len(steps)
    /\ sys_log' = Append(sys_log,
                         [command |-> steps[Len(sys_log) + 1], outcome |-> outcome])
    /\ IF StepFailed(outcome)
       THEN sys_setup' = "False" /\ sys_pc' = "exit"
       ELSE IF Len(sys_log) + 1 = Len(steps)
            THEN sys_setup' = "True" /\ sys_pc' = "app"
            ELSE UNCHANGED <<sys_setup, sys_pc>>
    /\ UNCHANGED <<sys_existing, sys_missing, sys_app, not_sys_vars>>

\* run_app(): the app is started and ends in one of three ways
RunApp(outcome) ==
    /\ sys_pc = "app"
    /\ sys_app' = outcome
    /\ sys_pc' = "exit"
    /\ UNCHANGED <<sys_existing, sys_missing, sys_log, sys_setup, not_sys_vars>>

SysNext ==
    \/ MainCheck
    \/ \E outcome \in StepOutcomes : SetupStep(outcome)
    \/ \E outcome \in AppOutcomes : RunApp(outcome)

SpecSys == SysInit /\ [][SysNext]_vars

AppLaunched == sys_app # "not_run"

\* C12: the app is launched only when no required file was missing or
\* setup_system returned True; the setup commands run in the order download,
\* preprocess, train, recommender; no command runs after one that exited
\* non-zero or could not be started, and setup_system then returns False; it
\* returns True only after all four commands exited with code 0
C12_SetupOrderAndLaunch ==
    /\ AppLaunched => (sys_missing = {} \/ sys_setup = "True")
    /\ Len(sys_log) <= Len(steps)
    /\ \A i \in 1..Len(sys_log) : sys_log[i].command = steps[i]
    /\ \A i \in 1..Len(sys_log) : i < Len(sys_log) => sys_log[i].outcome = "exit0"
    /\ (\E i \in 1..Len(sys_log) : sys_log[i].outcome # "exit0") =>
           sys_setup = "False" /\ sys_pc = "exit" /\ ~AppLaunched
    /\ sys_setup = "True" =>
           /\ Len(sys_log) = Len(steps)
           /\ \A i \in 1..Len(sys_log) : sys_log[i].outcome = "exit0"

C12_Witness ==
    /\ AppLaunched
    /\ sys_missing # {}
    /\ sys_setup = "True"
    /\ Len(sys_log) = Len(steps)

(***************************************************************************)
(* DataPreprocessor: the train/validation split                            *)
(***************************************************************************)
\* v is 20% of n, rounded up
IsFifthRoundedUp(v, n) == 5 * v >= n /\ 5 * (v - 1) < n

SplitOfClass(c) ==
    /\ train_files[c] \cap val_files[c] = {}
    /\ train_files[c] \cup val_files[c] = image_files[c]
    /\ IsFifthRoundedUp(Cardinality(val_files[c]), Cardinality(image_files[c]))

\* C13: when create_train_val_split has run, it completed, and for every
\* class with at least one image under processed_data/images the train and
\* val directories of the class are disjoint, together hold every image of
\* the class, and val holds 20% of them, rounded up
C13_SplitCoversEveryClass ==
    pre_last = "create_train_val_split" =>
        /\ split_result.kind = "return"
        /\ \A c \in ClassNames : image_files[c] # {} => SplitOfClass(c)

(***************************************************************************)
(* DataPreprocessor: file names in processed_data/images/<class>           *)
(***************************************************************************)
\* C17: from an empty processed_data/images/<class>, after k calls of
\* copy_image_with_class for the class the directory holds exactly the k
\* files <class>_0.jpg .. <class>_{k-1}.jpg, so no call wrote over a file
\* an earlier call had copied
C17_FilesNumberedByCall ==
    \A c \in ClassNames :
        /\ image_files[c] = 0..(copy_calls[c] - 1)
        /\ Cardinality(image_files[c]) = copy_calls[c]

C17_Witness ==
    \E c \in ClassNames : copy_calls[c] = 3 /\ image_files[c] = {0, 1, 2}

(***************************************************************************)
(* DataPreprocessor: extract_pest_class and the dataset walks              *)
(***************************************************************************)
pest_keywords ==
    <<<<"a", "p", "h", "i", "d">>,
      <<"t", "h", "r", "i", "p", "s">>,
      <<"w", "h", "i", "t", "e", "f", "l", "y">>,
      <<"c", "a", "t", "e", "r", "p", "i", "l", "l", "a", "r">>,
      <<"b", "e", "e", "t", "l", "e">>,
      <<"m", "i", "t", "e">>,
      <<"l", "e", "a", "f", "h", "o", "p", "p", "e", "r">>,
      <<"s", "c", "a", "l", "e">>,
      <<"b", "o", "r", "e", "r">>,
      <<"w", "e", "e", "v", "i", "l">>,
      <<"a", "r", "m", "y", "w", "o", "r", "m">>,
      <<"b", "o", "l", "l", "w", "o", "r", "m">>,
      <<"c", "u", "t", "w", "o", "r", "m">>,
      <<"w", "i", "r", "e", "w", "o", "r", "m">>>>

\* What extract_pest_class returns when it finds no class
NoneClass == <<"None">>

\* The last keyword, in list order, that occurs in s
LastKeywordIn(s) ==
    LET hits == {i \in DOMAIN pest_keywords : PyIn(pest_keywords[i], s)}
    IN  IF hits = {} THEN NoneClass
        ELSE pest_keywords[CHOOSE i \in hits : \A j \in hits : j <= i]

\* for keyword in pest_keywords: if keyword in path_lower: return keyword
FirstKeywordIn(s) ==
    LET hits == {i \in DOMAIN pest_keywords : PyIn(pest_keywords[i], s)}
    IN  IF hits = {} THEN NoneClass
        ELSE pest_keywords[CHOOSE i \in hits : \A j \in hits : i <= j]

\* os.path.basename(path): what follows the last separator
Basename(path) ==
    LET seps == {i \in DOMAIN path : path[i] = "/"}
    IN  IF seps = {} THEN path
        ELSE SubSeq(path, (CHOOSE i \in seps : \A j \in seps : j <= i) + 1, Len(path))

ImagesFolder == <<"i", "m", "a", "g", "e", "s">>

extract_pest_class(path) ==
    LET path_lower == LowerStr(path)
        keyword == FirstKeywordIn(path_lower)
        folder_name == LowerStr(Basename(path))
    IN  IF keyword # NoneClass THEN keyword
        ELSE IF folder_name # <<>> /\ folder_name # ImagesFolder THEN folder_name
        ELSE NoneClass

\* s.endswith(suffix)
EndsWith(s, suffix) ==
    Len(suffix) <= Len(s) /\ SubSeq(s, Len(s) - Len(suffix) + 1, Len(s)) = suffix

\* file.lower().endswith((".png", ".jpg", ".jpeg"))
IsImageFile(file) ==
    \E suffix \in {<<".", "p", "n", "g">>, <<".", "j", "p", "g">>, <<".", "j", "p", "e", "g">>} :
        EndsWith(LowerStr(file), suffix)

\* os.path.join(a, b)
PathJoin(a, b) == a \o <<"/">> \o b

\* crop_pest_path and ag_pest_path
DatasetPaths ==
    {<<"d", "a", "t", "a", "/", "c", "r", "o", "p", "_", "p", "e", "s", "t">>,
     <<"d", "a", "t", "a", "/", "a", "g", "_", "p", "e", "s", "t", "s">>}

\* Directories below a dataset path, relative to it
DatasetFolders ==
    {<<>>,
     <<"A", "p", "h", "i", "d", "/", "i", "m", "a", "g", "e", "s">>,
     <<"F", "l", "y">>,
     <<"F", "l", "y", "/", "I", "m", "a", "g", "e", "s">>,
     <<"t", "h", "r", "i", "p", "s", "_", "A", "P", "H", "I", "D">>,
     <<"t", "e", "r", "m", "i", "t", "e">>}

\* The roots os.walk yields for the two datasets
WalkRoots ==
    {IF f = <<>> THEN d ELSE PathJoin(d, f) : d \in DatasetPaths, f \in DatasetFolders}

\* Arguments of a direct call: the walk roots, also with a trailing separator
ExtractArgs == WalkRoots \cup {r \o <<"/">> : r \in WalkRoots}

FileNames == {<<"x", ".", "J", "P", "G">>, <<"n", "o", "t", "e", "s", ".", "t", "x", "t">>}

\* IsImageFile, tabulated over the file names
ImageFiles == {file \in FileNames : IsImageFile(file)}

\* extract_pest_class, tabulated over the paths it is called with
ClassOfPath == [path \in ExtractArgs |-> extract_pest_class(path)]

\* The classes the walks can produce
WalkClasses == {ClassOfPath[r] : r \in WalkRoots} \ {NoneClass}

WalkInit ==
    /\ pest_classes = EmptyDict
    /\ class_mapping = EmptyDict
    /\ image_files = [c \in WalkClasses |-> {}]
    /\ mapping_json = NoFile
    /\ pre_last = "init"
    /\ copy_calls = [c \in WalkClasses |-> 0]
    /\ train_files = [c \in WalkClasses |-> {}]
    /\ val_files = [c \in WalkClasses |-> {}]
    /\ split_result = NoCall
    /\ walk_last = NoWalk
    /\ RecIdle /\ DetIdle /\ AppIdle /\ CleanIdle /\ SysIdle /\ LoadIdle /\ TrainIdle

\* preprocessor.extract_pest_class(path), called on its own
ExtractCall(path) ==
    /\ walk_last' = [kind |-> "extract", path |-> path, image |-> FALSE,
                     pest_class |-> ClassOfPath[path]]
    /\ UNCHANGED <<core_vars, clean_vars, sys_vars, load_vars, train_vars>>

\* The body of the loops of process_crop_pest_data and process_ag_pest_data
\* for one file of one directory:
\*     if file.lower().endswith(...):
\*         pest_class = self.extract_pest_class(root)
\*         if pest_class: self.copy_image_with_class(path, pest_class)
ProcessFile(root, file) ==
    /\ ImagesCopied < MaxImages
    /\ IF file \in ImageFiles
       THEN /\ walk_last' = [kind |-> "process", path |-> root, image |-> TRUE,
                             pest_class |-> ClassOfPath[root]]
            /\ IF ClassOfPath[root] # NoneClass
               THEN copy_image_with_class(ClassOfPath[root])
               ELSE UNCHANGED pre_vars
       ELSE /\ walk_last' = [kind |-> "process", path |-> root, image |-> FALSE,
                             pest_class |-> NoneClass]
            /\ UNCHANGED pre_vars
    /\ UNCHANGED <<rec_vars, det_vars, app_vars, clean_vars, sys_vars, load_vars, train_vars>>

WalkNext ==
    \/ \E path \in ExtractArgs : ExtractCall(path)
    \/ \E root \in WalkRoots, file \in FileNames : ProcessFile(root, file)

SpecWalk == WalkInit /\ [][WalkNext]_vars

\* The components of a path, split at the separators
RECURSIVE SplitPath(_)
SplitPath(path) ==
    IF \A i \in DOMAIN path : path[i] # "/" THEN <<path>>
    ELSE LET k == CHOOSE i \in DOMAIN path :
                      path[i] = "/" /\ \A j \in 1..(i - 1) : path[j] # "/"
         IN  <<SubSeq(path, 1, k - 1)>> \o SplitPath(SubSeq(path, k + 1, Len(path)))

LastComponent(path) == SplitPath(path)[Len(SplitPath(path))]

OccurringKeywords(path) ==
    {i \in DOMAIN pest_keywords : PyIn(pest_keywords[i], LowerStr(path))}

\* the class the claim gives a path
ClaimedClass(path) ==
    IF OccurringKeywords(path) # {}
    THEN pest_keywords[CHOOSE i \in OccurringKeywords(path) :
                           \A j \in OccurringKeywords(path) : i <= j]
    ELSE IF LastComponent(path) = <<>> \/ LowerStr(LastComponent(path)) = ImagesFolder
         THEN NoneClass
         ELSE LowerStr(LastComponent(path))

\* ClaimedClass, tabulated
ClaimedOfPath == [path \in ExtractArgs |-> ClaimedClass(path)]

ClassAsClaimed ==
    (walk_last.kind = "extract" \/ (walk_last.kind = "process" /\ walk_last.image)) =>
        walk_last.pest_class = ClaimedOfPath[walk_last.path]

NoneNotCopied ==
    (walk_last'.kind = "process" /\ walk_last'.pest_class = NoneClass) =>
        /\ pest_classes' = pest_classes
        /\ image_files' = image_files

\* C14: extract_pest_class returns the first keyword of the list that occurs
\* in the lower-cased path, else the lower-cased last path component, else
\* None when that component is empty or is 'images'; a file met by a walk
\* whose class is None is not copied and adds no entry to pest_classes
C14_ExtractPestClass == []ClassAsClaimed /\ [][NoneNotCopied]_vars

C14_Witness ==
    /\ walk_last.kind = "process"
    /\ walk_last.image
    /\ walk_last.pest_class = NoneClass
    /\ ImagesCopied > 0

(***************************************************************************)
(* PesticideRecommender: construction and load_pesticide_database          *)
(***************************************************************************)
\* default_data["pest_name"]
default_pest_names ==
    LET aphid == <<"a", "p", "h", "i", "d">>
        thrips == <<"t", "h", "r", "i", "p", "s">>
        whitefly == <<"w", "h", "i", "t", "e", "f", "l", "y">>
        caterpillar == <<"c", "a", "t", "e", "r", "p", "i", "l", "l", "a", "r">>
        beetle == <<"b", "e", "e", "t", "l", "e">>
        mite == <<"m", "i", "t", "e">>
        leafhopper == <<"l", "e", "a", "f", "h", "o", "p", "p", "e", "r">>
        scale == <<"s", "c", "a", "l", "e">>
        borer == <<"b", "o", "r", "e", "r">>
        weevil == <<"w", "e", "e", "v", "i", "l">>
        armyworm == <<"a", "r", "m", "y", "w", "o", "r", "m">>
        bollworm == <<"b", "o", "l", "l", "w", "o", "r", "m">>
    IN  <<aphid, aphid, aphid,
          thrips, thrips, thrips,
          whitefly, whitefly, whitefly,
          caterpillar, caterpillar, caterpillar,
          beetle, beetle, beetle,
          mite, mite, mite,
          leafhopper, leafhopper, leafhopper,
          scale, scale, scale,
          borer, borer, borer,
          weevil, weevil, weevil,
          armyworm, armyworm,
          bollworm, bollworm>>

\* pd.DataFrame(default_data)
DefaultDb == MakeDb(DefaultColumns, default_pest_names)

\* What a CSV file under data/pestopia can hold
CsvTables == {MakeDb(c, n) : c \in Schemas, n \in SeqsUpTo(PestNames, 1)}

\* A file under data/pestopia: its name ends in ".csv" or not, and
\* pd.read_csv either returns its table or raises
PestopiaFiles ==
    {[csv |-> FALSE, loads |-> FALSE, table |-> NoneDb],
     [csv |-> TRUE, loads |-> FALSE, table |-> NoneDb]} \cup
    {[csv |-> TRUE, loads |-> TRUE, table |-> t] : t \in CsvTables}

PestopiaDirs ==
    {[exists |-> FALSE, files |-> <<>>]} \cup
    {[exists |-> TRUE, files |-> f] : f \in SeqsUpTo(PestopiaFiles, MaxFiles)}

\* csv_files: the files under data/pestopia whose name ends in ".csv"
CsvFiles(dir) ==
    LET IsCsv(f) == f.csv
    IN  IF dir.exists THEN SelectSeq(dir.files, IsCsv) ELSE <<>>

\* a read error leaves self.pesticide_db as __init__ set it
LoadWithoutFallback(dir) ==
    IF CsvFiles(dir) # <<>> /\ CsvFiles(dir)[1].loads
    THEN [db |-> CsvFiles(dir)[1].table, wrote_default |-> FALSE]
    ELSE [db |-> NoneDb, wrote_default |-> FALSE]

\* load_pesticide_database: the table it leaves in self.pesticide_db, and
\* whether create_default_database ran
load_pesticide_database(dir) ==
    IF CsvFiles(dir) # <<>> /\ CsvFiles(dir)[1].loads
    THEN [db |-> CsvFiles(dir)[1].table, wrote_default |-> FALSE]
    ELSE [db |-> DefaultDb, wrote_default |-> TRUE]

LoadInit ==
    /\ pestopia \in PestopiaDirs
    /\ default_csv = FALSE
    /\ load_result = NoCall
    /\ PreIdle /\ RecIdle /\ DetIdle /\ AppIdle /\ CleanIdle /\ SysIdle /\ WalkIdle /\ TrainIdle

\* recommender = PesticideRecommender()
RecConstruct ==
    /\ load_result = NoCall
    /\ pesticide_db' = load_pesticide_database(pestopia).db
    /\ default_csv' = load_pesticide_database(pestopia).wrote_default
    /\ load_result' = Returned("PesticideRecommender")
    /\ UNCHANGED <<rec_pc, rec_query, rec_result, ui, ui_exc, pestopia>>
    /\ UNCHANGED <<pre_vars, det_vars, app_vars, clean_vars, sys_vars, walk_last, train_vars>>

\* recommender.load_pesticide_database(), called again on the built object
Reload ==
    /\ load_result # NoCall
    /\ pesticide_db' = load_pesticide_database(pestopia).db
    /\ default_csv' = (default_csv \/ load_pesticide_database(pestopia).wrote_default)
    /\ load_result' = Returned("None")
    /\ UNCHANGED <<rec_pc, rec_query, rec_result, ui, ui_exc, pestopia>>
    /\ UNCHANGED <<pre_vars, det_vars, app_vars, clean_vars, sys_vars, walk_last, train_vars>>

LoadNext == RecConstruct \/ Reload

SpecLoad == LoadInit /\ [][LoadNext]_vars

\* the first file found under data/pestopia whose name ends in ".csv"
HasCsv == pestopia.exists /\ \E i \in DOMAIN pestopia.files : pestopia.files[i].csv

FirstCsv ==
    pestopia.files[CHOOSE i \in DOMAIN pestopia.files :
                       /\ pestopia.files[i].csv
                       /\ \A j \in 1..(i - 1) : ~pestopia.files[j].csv]

\* C15: once PesticideRecommender() has been constructed, pesticide_db is not
\* None; it is the table of the first CSV file under data/pestopia if that
\* file loads, and otherwise the default table of 34 rows with the columns
\* pest_name, pesticide_name, application_rate, effectiveness; the
\* constructor returned
C15_DatabaseLoadedOrDefault ==
    load_result # NoCall =>
        /\ load_result.kind = "return"
        /\ pesticide_db # NoneDb
        /\ IF HasCsv /\ FirstCsv.loads
           THEN pesticide_db = FirstCsv.table
           ELSE /\ NRows(pesticide_db) = 34
                /\ pesticide_db.columns =
                       <<"pest_name", "pesticide_name", "application_rate", "effectiveness">>
                /\ pesticide_db = DefaultDb

C15_Witness ==
    /\ load_result # NoCall
    /\ HasCsv
    /\ ~FirstCsv.loads
    /\ \E i \in DOMAIN pestopia.files : pestopia.files[i].loads
    /\ pesticide_db = DefaultDb

(***************************************************************************)
(* From preprocessing through training to the detector                     *)
(***************************************************************************)
\* sorted(os.listdir("processed_data/train")) for the class names above
SortedClassNames == <<"aphid", "mite", "thrips">>

\* The sub-directories of processed_data/train
TrainDirs == {c \in ClassNames : train_files[c] # {}}

\* flow_from_directory without a classes argument: the sub-directories in
\* alphanumeric order, numbered from 0
ClassIndices(dirs) ==
    [c \in dirs |->
        Cardinality({i \in DOMAIN SortedClassNames :
                        /\ SortedClassNames[i] \in dirs
                        /\ \E j \in DOMAIN SortedClassNames :
                              SortedClassNames[j] = c /\ i < j})]

\* The training script: PestDetectionModel(), create_model(), prepare_data(),
\* train_model().  The model has len(class_mapping) outputs, the generator
\* one label per sub-directory; fit raises when the two differ.
TrainModel ==
    /\ train_result = NoCall
    /\ IF ~mapping_json.exists
       THEN /\ train_result' = Raised("FileNotFoundError")
            /\ UNCHANGED <<class_indices, model_file>>
       ELSE IF TrainDirs = {} \/ Cardinality(TrainDirs) # Len(mapping_json.members)
       THEN /\ train_result' = Raised("ValueError")
            /\ class_indices' = ClassIndices(TrainDirs)
            /\ UNCHANGED model_file
       ELSE /\ train_result' = Returned("None")
            /\ class_indices' = ClassIndices(TrainDirs)
            /\ model_file' = "ok"
    /\ UNCHANGED <<detector, det_pc, det_image, det_result>>
    /\ UNCHANGED <<rec_vars, pre_vars, app_vars, clean_vars, sys_vars, walk_last, load_vars>>

PipeNext ==
    \/ \E c \in ClassNames : CopyImageWithClass(c)
    \/ CreateTrainValSplit
    \/ SaveClassMapping
    \/ TrainModel
    \/ DetConstruct

SpecPipe == PreInit /\ [][PipeNext]_vars

\* The detector was built from the mapping of exactly the classes the model
\* was trained on
SameClasses ==
    /\ detector # NoObject
    /\ train_result = Returned("None")
    /\ Range(detector.class_mapping.keys) = DOMAIN class_indices

\* C16: the pest name the detector gives an output index is the class the
\* trainer's generator gave that index, whatever the classes discovered and
\* the order of their discovery
C16_DetectorIndexIsTrainerIndex ==
    SameClasses =>
        \A idx \in Range(detector.idx_to_class.keys) :
            class_indices[detector.idx_to_class.val[idx]] = idx

(***************************************************************************)
(* Recommender: tables without the required columns                        *)
(***************************************************************************)
\* the table has a column whose lower-cased name is one of the accepted ones
HasColumnNamed(accepted) ==
    \E i \in DOMAIN pesticide_db.columns : ColLower(pesticide_db.columns[i]) \in accepted

RequiredColumnMissing ==
    \/ ~HasColumnNamed({"pest name", "pest_name"})
    \/ ~HasColumnNamed({"most commonly used pesticides", "pesticide_name"})

\* C18: on a table that lacks a pest-name column or a pesticide column (names
\* compared case-insensitively) get_recommendations returns the empty list
\* for every query and does not raise; no call changes pesticide_db
C18_MissingColumnsReturnEmpty ==
    /\ [](rec_pc # "idle" /\ RequiredColumnMissing => rec_result = Returned(<<>>))
    /\ [][pesticide_db' = pesticide_db]_vars

C18_Witness ==
    /\ rec_pc = "returned"
    /\ HasColumnNamed({"pest name", "pest_name"})
    /\ ~HasColumnNamed({"most commonly used pesticides", "pesticide_name"})
    /\ QueryClean # <<>>
    /\ \E i \in AllRows : PyIn(QueryClean, LowerName(i))

====
